---------------------------- MODULE Spec2Model ----------------------------
(***************************************************************************)
(* Streaming acquisition core of the two serial plotters:                  *)
(*   src/fft/fft.py   text lines "millis,adc" or "adc"  (mode "text")      *)
(*   src/fft/fft2.py  raw uint16 byte stream            (mode "binary")    *)
(*                                                                         *)
(* Representation of the numbers of the source:                            *)
(*   - a text line is a sequence of one-character strings;                 *)
(*   - a float is an exact rational <<num, den>> in lowest terms with      *)
(*     den > 0 (no rounding): 1 / 1000.0 is <<1, 1000>>, 0.0 is <<0, 1>>;  *)
(*   - Python's None is <<>> and a present value v is <<v>>.               *)
(* The window length, the hop and the minimum number of deltas are scaled  *)
(* down (N, HOP, HOP_BIN, MIN_DT below); the scripted scenario E2E runs    *)
(* with the sizes its statement fixes.                                     *)
(***************************************************************************)
EXTENDS Integers, Sequences, FiniteSets, TLC

VARIABLES
    mode,             \* which script runs: "parse", "text", "binary"
    raw,              \* fft.py: the line last read
    t_s,              \* fft.py: parse_line's timestamp, <<>> for None
    adc,              \* fft.py: parse_line's sample, <<>> for None
    x,                \* fft.py: value buffer (volts)
    t,                \* fft.py: timestamp buffer (seconds)
    have_timestamps,  \* fft.py
    sample_count,     \* fft.py
    new_samples,      \* fft.py: hop counter
    chunk,            \* fft2.py: the bytes last read
    pending,          \* fft2.py: bytes not yet decoded
    data,             \* fft2.py: samples of the current chunk the for loop has not reached
    buf,              \* fft2.py: value buffer (counts, as floats)
    new,              \* fft2.py: hop counter
    pc,               \* fft2.py: "read" (at ser.read) or "for" (inside the for loop)
    sent,             \* scenario: lines the scripted sender has written
    stream,           \* history: every byte read so far
    pushed,           \* history: the accepted samples, in push order
    emitted           \* history: the snapshots handed to the plot, in order

vars == <<mode, raw, t_s, adc, x, t, have_timestamps, sample_count, new_samples,
          chunk, pending, data, buf, new, pc, sent, stream, pushed, emitted>>

textVars == <<raw, t_s, adc, x, t, have_timestamps, sample_count, new_samples>>
binVars == <<chunk, pending, data, buf, new, pc>>

-----------------------------------------------------------------------------
(* Bounds of the model *)

\* window length (2048 in both scripts), scaled
N == 4
\* fft.py's hop (128), scaled
HOP == 2
\* fft2.py's hop (256), scaled
HOP_BIN == 2
\* fft.py keeps the derived rate when dt.size > 10; scaled
MIN_DT == 1
\* longest line parse_line is run on
MaxLineLen == 4
\* accepted lines per run of the text loop
MaxPush == 5
\* bytes per run of the binary loop
MaxBytes == 10
\* ser.read(4096) returns at most this many bytes, scaled
MaxChunk == 8

-----------------------------------------------------------------------------
(* Program constants *)

\* fft.py: VREF = 5.0, ADC_BITS = 10, FS_FALLBACK = 1000.0
VREF == 5
ADC_BITS == 10
FS_FALLBACK == 1000
\* fft2.py: FS = 1000.0
FS == 1000
\* fft.py: the 10 of dt.size > 10, used unscaled by the scripted run
DT_SIZE_MIN == 10

-----------------------------------------------------------------------------
(* Exact rationals standing for the floats *)

RECURSIVE GCD(_, _)
GCD(a, b) == IF b = 0 THEN a ELSE GCD(b, a % b)

Abs(a) == IF a < 0 THEN -a ELSE a

\* the rational n/d in lowest terms with a positive denominator; n/0 is kept
\* as it is (0/0 stands for nan, n/0 for inf)
R(n, d) ==
    IF d = 0 THEN <<n, 0>>
    ELSE LET g == GCD(Abs(n), Abs(d))
             sg == IF d < 0 THEN -1 ELSE 1
         IN  <<sg * (n \div g), sg * (d \div g)>>

RZero == R(0, 1)
RSub(a, b) == R(a[1] * b[2] - b[1] * a[2], a[2] * b[2])
RLt(a, b) == a[1] * b[2] < b[1] * a[2]
\* 1.0 / m ; a zero m gives den = 0 (numpy: inf after a divide warning)
RInv(m) == R(m[2], m[1])
\* (a + b) / 2
RMean2(a, b) == R(a[1] * b[2] + b[1] * a[2], 2 * a[2] * b[2])

None == <<>>
Some(v) == <<v>>

-----------------------------------------------------------------------------
(* Text: str.strip, str.split(",", 1), int *)

Digits == {"0", "1", "2", "3", "4", "5", "6", "7", "8", "9"}
Space == {" ", "\n", "\r", "\t"}

DigitVal(c) ==
    CASE c = "0" -> 0 [] c = "1" -> 1 [] c = "2" -> 2 [] c = "3" -> 3
      [] c = "4" -> 4 [] c = "5" -> 5 [] c = "6" -> 6 [] c = "7" -> 7
      [] c = "8" -> 8 [] c = "9" -> 9

RECURSIVE LStrip(_)
LStrip(s) == IF s # <<>> /\ Head(s) \in Space THEN LStrip(Tail(s)) ELSE s

RECURSIVE RStrip(_)
RStrip(s) ==
    IF s # <<>> /\ s[Len(s)] \in Space THEN RStrip(SubSeq(s, 1, Len(s) - 1)) ELSE s

\* str.strip()
Strip(s) == RStrip(LStrip(s))

\* "," in line
HasComma(s) == \E i \in 1..Len(s) : s[i] = ","

FirstComma(s) == CHOOSE i \in 1..Len(s) : s[i] = "," /\ \A j \in 1..(i - 1) : s[j] # ","

\* line.split(",", 1) of a line that holds a comma: the text before the
\* first comma and all the text after it
SplitOnce(s) ==
    LET i == FirstComma(s)
    IN  <<SubSeq(s, 1, i - 1), SubSeq(s, i + 1, Len(s))>>

\* digits of an int literal: digits, single underscores only between digits
DigitsOk(d) ==
    /\ d # <<>>
    /\ \A i \in 1..Len(d) : d[i] \in Digits \cup {"_"}
    /\ d[1] # "_" /\ d[Len(d)] # "_"
    /\ \A i \in 1..(Len(d) - 1) : ~(d[i] = "_" /\ d[i + 1] = "_")

RECURSIVE DecValue(_, _)
DecValue(d, acc) ==
    IF d = <<>> THEN acc
    ELSE IF Head(d) = "_" THEN DecValue(Tail(d), acc)
    ELSE DecValue(Tail(d), 10 * acc + DigitVal(Head(d)))

\* int(s): <<n>>, or <<>> when int raises ValueError
PyInt(s) ==
    LET b == Strip(s)
        signed == b # <<>> /\ Head(b) \in {"+", "-"}
        d == IF signed THEN Tail(b) ELSE b
    IN  IF ~DigitsOk(d) THEN None
        ELSE IF signed /\ Head(b) = "-" THEN Some(-DecValue(d, 0))
        ELSE Some(DecValue(d, 0))

\* parse_line as line.split(",") would make it: the second field ends at
\* the next comma and whatever follows is dropped
parse_line_firstfields(line) ==
    LET l == Strip(line)
    IN  IF l = <<>> THEN <<None, None>>
        ELSE IF HasComma(l)
        THEN LET ab == SplitOnce(l)
                 b == IF HasComma(ab[2]) THEN SplitOnce(ab[2])[1] ELSE ab[2]
                 t_ms == PyInt(Strip(ab[1]))
                 a == PyInt(Strip(b))
             IN  IF t_ms = None \/ a = None THEN <<None, None>>
                 ELSE <<Some(R(t_ms[1], 1000)), a>>
        ELSE LET a == PyInt(l)
             IN  IF a = None THEN <<None, None>> ELSE <<None, a>>

\* parse_line(line): <<t_seconds or None, adc or None>>
parse_line(line) ==
    LET l == Strip(line)
    IN  IF l = <<>> THEN <<None, None>>
        ELSE IF HasComma(l)
        THEN LET ab == SplitOnce(l)
                 t_ms == PyInt(Strip(ab[1]))
                 a == PyInt(Strip(ab[2]))
             IN  IF t_ms = None \/ a = None THEN <<None, None>>
                 ELSE <<Some(R(t_ms[1], 1000)), a>>
        ELSE LET a == PyInt(l)
             IN  IF a = None THEN <<None, None>> ELSE <<None, a>>

\* a conversion that divides by 2**ADC_BITS
adc_to_volts_pow2(a) == R(a * VREF, 2 ^ ADC_BITS)

\* adc_to_volts(adc) = (adc / (2**ADC_BITS - 1)) * VREF
adc_to_volts(a) == R(a * VREF, 2 ^ ADC_BITS - 1)

-----------------------------------------------------------------------------
(* The two buffers of fft.py and the buffer of fft2.py *)

Zeros(n) == [i \in 1..n |-> RZero]

\* a shift that overwrites the newest slot and evicts nothing
PushX_overwrite(b, v) == [b EXCEPT ![Len(b)] = v]

\* x[:-1] = x[1:] ; x[-1] = v
PushX(b, v) == Append(Tail(b), v)

\* t[:-1] = t[1:] ; t[-1] = v
PushT(b, v) == Append(Tail(b), v)

\* the same shift in fft2.py, overwriting the newest slot
PushBuf_overwrite(b, s) == [b EXCEPT ![Len(b)] = s]

\* buf[:-1] = buf[1:] ; buf[-1] = float(s)
PushBuf(b, s) == Append(Tail(b), s)

-----------------------------------------------------------------------------
(* Sampling rate of a cycle, fft.py *)

\* np.diff(t)
Diff(tb) == [i \in 1..(Len(tb) - 1) |-> RSub(tb[i + 1], tb[i])]

\* a filter that keeps zero deltas
Sane_nonneg(d) == ~RLt(d, RZero) /\ RLt(d, R(1, 1))

\* (dt > 0) & (dt < 1.0)
Sane(d) == RLt(RZero, d) /\ RLt(d, R(1, 1))

\* dt[(dt > 0) & (dt < 1.0)]
KeepSane(dt) == SelectSeq(dt, Sane)

\* the k-th smallest element of a non-empty dt, k in 1..Len(dt)
Kth(dt, k) ==
    LET v == CHOOSE i \in 1..Len(dt) :
                 /\ Cardinality({j \in 1..Len(dt) : RLt(dt[j], dt[i])}) < k
                 /\ k <= Cardinality({j \in 1..Len(dt) : ~RLt(dt[i], dt[j])})
    IN  dt[v]

\* np.median(dt): the middle element, or the mean of the two middle ones;
\* nan, written 0/0, of an empty dt
Median(dt) ==
    LET n == Len(dt)
    IN  IF n = 0 THEN R(0, 0)
        ELSE IF n % 2 = 1 THEN Kth(dt, (n + 1) \div 2)
        ELSE RMean2(Kth(dt, n \div 2), Kth(dt, n \div 2 + 1))

\* the size test with >= in place of >
EnoughDeltas_geq(dt, minCount) == Len(dt) >= minCount

\* dt.size > 10
EnoughDeltas(dt, minCount) == Len(dt) > minCount

\* fs of a cycle: lines 141-145 and 153
RateEstimate(tb, have, minCount) ==
    IF have
    THEN LET dt == KeepSane(Diff(tb))
         IN  IF EnoughDeltas(dt, minCount) THEN RInv(Median(dt)) ELSE R(FS_FALLBACK, 1)
    ELSE R(FS_FALLBACK, 1)

-----------------------------------------------------------------------------
(* The main loop of fft.py *)

\* a counter that also counts the discarded lines
CountAfter_always(n, accepted) == n + 1

\* new_samples after an iteration: `continue` on a discarded line, else += 1
CountAfter(n, accepted) == IF accepted THEN n + 1 ELSE n

\* a hop test that fires one sample late
HopReached_late(n, hop) == n > hop

\* new_samples >= HOP
HopReached(n, hop) == n >= hop

\* a cycle, lines 137-181: the rate of the cycle and the window given to the
\* plot, after k pushes
TextSnapshot(k, xb, tb, have, minCount) ==
    [k |-> k, x |-> xb, fs |-> RateEstimate(tb, have, minCount)]

\* one iteration of `while True` on the line `line`
TextIter(line, hop, minCount) ==
    LET p == parse_line(line)
        accepted == p[2] # None
        stamped == p[1] # None
        n1 == CountAfter(new_samples, accepted)
    IN  /\ raw' = line
        /\ t_s' = p[1]
        /\ adc' = p[2]
        /\ IF ~accepted
           THEN /\ new_samples' = n1
                /\ UNCHANGED <<x, t, have_timestamps, sample_count, pushed, emitted>>
           ELSE LET x1 == PushX(x, adc_to_volts(p[2][1]))
                    t1 == IF stamped THEN PushT(t, p[1][1]) ELSE t
                    h1 == have_timestamps \/ stamped
                    p1 == Append(pushed, [adc |-> p[2][1], ts |-> p[1]])
                IN  /\ x' = x1
                    /\ t' = t1
                    /\ have_timestamps' = h1
                    /\ sample_count' = IF stamped THEN sample_count ELSE sample_count + 1
                    /\ pushed' = p1
                    /\ IF HopReached(n1, hop)
                       THEN /\ new_samples' = 0
                            /\ emitted' = Append(emitted,
                                                 TextSnapshot(Len(p1), x1, t1, h1, minCount))
                       ELSE /\ new_samples' = n1
                            /\ UNCHANGED emitted
        /\ UNCHANGED <<mode, stream>>
        /\ UNCHANGED binVars

-----------------------------------------------------------------------------
(* The main loop of fft2.py *)

\* new >= HOP
NewReached(n, hop) == n >= hop

\* np.frombuffer(b, dtype=np.uint16) of an even number of bytes, on the
\* little-endian hosts the script runs on: low byte first
frombuffer(b) == [i \in 1..(Len(b) \div 2) |-> b[2 * i - 1] + 256 * b[2 * i]]

\* a carry-over that forgets the odd byte
Carry_drop(p, n_samples) == <<>>

\* pending[n_samples*2:]
Carry(p, n_samples) == SubSeq(p, 2 * n_samples + 1, Len(p))

\* a cycle of fft2.py, lines 59-80: the window given to the plot after k
\* pushes; the frequency axis is that of FS
BinSnapshot(k, b) == [k |-> k, x |-> b, fs |-> R(FS, 1)]

\* lines 41-52: one read, up to the for loop
ReadChunk(c) ==
    /\ pc = "read"
    /\ chunk' = c
    /\ stream' = stream \o c
    /\ IF c = <<>>
       THEN UNCHANGED <<pending, data, pc>>
       ELSE LET p1 == pending \o c
                n_samples == Len(p1) \div 2
            IN  IF n_samples = 0
                THEN /\ pending' = p1
                     /\ UNCHANGED <<data, pc>>
                ELSE /\ data' = frombuffer(SubSeq(p1, 1, 2 * n_samples))
                     /\ pending' = Carry(p1, n_samples)
                     /\ pc' = "for"
    /\ UNCHANGED <<buf, new, pushed, emitted, mode, sent>>
    /\ UNCHANGED textVars

\* lines 54-80: one pass of `for s in data`
ForStep ==
    /\ pc = "for"
    /\ LET s == Head(data)
           b1 == PushBuf(buf, R(s, 1))
           n1 == new + 1
           p1 == Append(pushed, s)
       IN  /\ buf' = b1
           /\ pushed' = p1
           /\ IF NewReached(n1, HOP_BIN)
              THEN /\ new' = 0
                   /\ emitted' = Append(emitted, BinSnapshot(Len(p1), b1))
              ELSE /\ new' = n1
                   /\ UNCHANGED emitted
    /\ data' = Tail(data)
    /\ pc' = IF Tail(data) = <<>> THEN "read" ELSE "for"
    /\ UNCHANGED <<chunk, pending, stream, mode, sent>>
    /\ UNCHANGED textVars

-----------------------------------------------------------------------------
(* What the transport delivers *)

\* characters of the lines parse_line is run on
ParseChars == {"0", "1", ",", " ", "-", "_", "x"}

\* lines of the text runs: stamped (in and out of order, one a second or
\* more later), bare, malformed, and the empty read of a timeout
TextLines ==
    { <<"1", ",", "3", "\n">>,
      <<" ", "2", ",", " ", "4", "\r", "\n">>,
      <<"4", ",", "5", "\n">>,
      <<"1", "0", "0", "4", ",", "6", "\n">>,
      <<"7", "\n">>,
      <<"4", ",", "x", "\n">>,
      <<>> }

ByteVals == {1, 255}

Chunks == UNION {[1..k -> ByteVals] : k \in 0..MaxChunk}

-----------------------------------------------------------------------------
(* Specifications *)

InitCommon ==
    /\ raw = <<>> /\ t_s = None /\ adc = None
    /\ have_timestamps = FALSE
    /\ sample_count = 0
    /\ new_samples = 0
    /\ chunk = <<>> /\ pending = <<>> /\ data = <<>>
    /\ buf = Zeros(N)
    /\ new = 0
    /\ pc = "read"
    /\ sent = 0
    /\ stream = <<>>
    /\ pushed = <<>>
    /\ emitted = <<>>

\* either script, started
Init ==
    /\ mode \in {"text", "binary"}
    /\ x = Zeros(N) /\ t = Zeros(N)
    /\ InitCommon

\* fft.py reads a line
TextStep ==
    /\ mode = "text"
    /\ \E line \in TextLines :
          /\ parse_line(line)[2] # None => Len(pushed) < MaxPush
          /\ TextIter(line, HOP, MIN_DT)
    /\ UNCHANGED sent

\* fft2.py reads a chunk
BinRead ==
    /\ mode = "binary"
    /\ \E c \in Chunks :
          /\ Len(stream) + Len(c) <= MaxBytes
          /\ ReadChunk(c)

\* fft2.py handles one sample of the chunk
BinFor ==
    /\ mode = "binary"
    /\ ForStep

Next == TextStep \/ BinRead \/ BinFor

Spec == Init /\ [][Next]_vars

\* parse_line alone, on every line of up to MaxLineLen characters: the line
\* grows by one character and is parsed again
InitParse ==
    /\ mode = "parse"
    /\ x = Zeros(N) /\ t = Zeros(N)
    /\ InitCommon

ParseStep ==
    /\ mode = "parse"
    /\ Len(raw) < MaxLineLen
    /\ \E c \in ParseChars :
          LET line == Append(raw, c)
              p == parse_line(line)
          IN  /\ raw' = line
              /\ t_s' = p[1]
              /\ adc' = p[2]
    /\ UNCHANGED <<x, t, have_timestamps, sample_count, new_samples, mode, sent,
                   stream, pushed, emitted>>
    /\ UNCHANGED binVars

SpecParse == InitParse /\ [][ParseStep]_vars

\* The scripted run: the sender writes the lines "1000,512" .. "1999,512",
\* one per millisecond, to a plotter of window 1024 and hop 128, then stops.
E2E == [N |-> 1024, HOP |-> 128, first |-> 1000, count |-> 1000, adc |-> 512]

DigitChar(d) ==
    CASE d = 0 -> "0" [] d = 1 -> "1" [] d = 2 -> "2" [] d = 3 -> "3"
      [] d = 4 -> "4" [] d = 5 -> "5" [] d = 6 -> "6" [] d = 7 -> "7"
      [] d = 8 -> "8" [] d = 9 -> "9"

\* the decimal digits of a natural number
RECURSIVE FormatNat(_)
FormatNat(n) ==
    IF n < 10 THEN <<DigitChar(n)>>
    ELSE Append(FormatNat(n \div 10), DigitChar(n % 10))

\* the i-th line of the script, i from 0
E2ELine(i) == FormatNat(E2E.first + i) \o <<",">> \o FormatNat(E2E.adc) \o <<"\n">>

InitE2E ==
    /\ mode = "text"
    /\ x = Zeros(E2E.N) /\ t = Zeros(E2E.N)
    /\ InitCommon

\* fft.py reads the next line of the script
E2EFeed ==
    /\ sent < E2E.count
    /\ sent' = sent + 1
    /\ TextIter(E2ELine(sent), E2E.HOP, DT_SIZE_MIN)

\* the script is over: readline times out and returns nothing
E2EIdle ==
    /\ sent = E2E.count
    /\ UNCHANGED sent
    /\ TextIter(<<>>, E2E.HOP, DT_SIZE_MIN)

SpecE2E == InitE2E /\ [][E2EFeed \/ E2EIdle]_vars

-----------------------------------------------------------------------------
(* Properties *)

\* the fields of a line, split at every comma
RECURSIVE Fields(_)
Fields(s) ==
    IF HasComma(s)
    THEN <<SplitOnce(s)[1]>> \o Fields(SplitOnce(s)[2])
    ELSE <<s>>

WindowOf(samples, n, zero) ==
    [i \in 1..n |->
        IF Len(samples) - n + i >= 1 THEN samples[Len(samples) - n + i] ELSE zero]

\* the values the text loop stores for the first k accepted samples
StoredText(k) == [i \in 1..k |-> adc_to_volts(pushed[i].adc)]

\* the values the binary loop stores for the first k samples
StoredBin(k) == [i \in 1..k |-> R(pushed[i], 1)]

\* C2: in both loops the value buffer always has length N and holds the
\* last N pushed samples, oldest first, after N - k zeros while only k < N
\* samples were pushed.
C2_WindowFifo ==
    /\ Len(x) = N
    /\ Len(buf) = N
    /\ mode = "text" => x = WindowOf(StoredText(Len(pushed)), N, RZero)
    /\ mode = "binary" => buf = WindowOf(StoredBin(Len(pushed)), N, RZero)

\* more than N samples were pushed in the text loop: a real sample was evicted
C2_Witness ==
    /\ mode = "text"
    /\ Len(pushed) = N + 1
    /\ x[1] # RZero
    /\ x[1] # x[N]

\* C3: in text mode, once a stamped line was accepted, t[i] is the
\* timestamp that arrived on the line of the sample in x[i], or both are
\* still the zero fill, for every index i.
C3_TimestampsAligned ==
    (mode = "text" /\ have_timestamps) =>
        \A i \in 1..N :
            LET p == Len(pushed) - N + i
            IN  IF p < 1
                THEN x[i] = RZero /\ t[i] = RZero
                ELSE /\ x[i] = adc_to_volts(pushed[p].adc)
                     /\ pushed[p].ts = Some(t[i])

\* a stamped line was accepted among the first k pushes
StampedBy(k) == \E i \in 1..k : pushed[i].ts # None

\* the places of a time buffer whose step to the next place is more than
\* zero and less than one second
SaneSteps(tb) ==
    {i \in 1..(Len(tb) - 1) :
        /\ tb[i][1] * tb[i + 1][2] < tb[i + 1][1] * tb[i][2]
        /\ (tb[i + 1][1] * tb[i][2] - tb[i][1] * tb[i + 1][2])
               < tb[i][2] * tb[i + 1][2]}

StepAt(tb, i) == RSub(tb[i + 1], tb[i])

\* m is a median of the steps of tb at the places K: the middle step, or
\* the mean of two steps with no more than half the steps on either side
IsMedian(m, tb, K) ==
    /\ 2 * Cardinality({i \in K : RLt(StepAt(tb, i), m)}) <= Cardinality(K)
    /\ 2 * Cardinality({i \in K : RLt(m, StepAt(tb, i))}) <= Cardinality(K)
    /\ \E i, j \in K :
          /\ m = RMean2(StepAt(tb, i), StepAt(tb, j))
          /\ Cardinality(K) % 2 = 1 => i = j

\* a cycle has just run: no sample was pushed since the last snapshot, so t
\* is the time buffer that cycle read
AfterCycle == emitted # <<>> /\ emitted[Len(emitted)].k = Len(pushed)

LastFs == emitted[Len(emitted)].fs

\* C4: the rate of every cycle.  Text mode: the fallback rate if no stamped
\* line was accepted so far; else, with the steps of the time buffer that
\* are above 0 and below 1.0 s, the fallback rate exactly when MIN_DT or
\* fewer remain (10 or fewer in the script), and 1/median of them otherwise.
\* Binary mode: always the configured rate.
C4_RateEstimate ==
    /\ mode = "binary" => \A n \in 1..Len(emitted) : emitted[n].fs = R(FS, 1)
    /\ (mode = "text" /\ AfterCycle) =>
          IF ~StampedBy(Len(pushed)) THEN LastFs = R(FS_FALLBACK, 1)
          ELSE IF Cardinality(SaneSteps(t)) < MIN_DT + 1 THEN LastFs = R(FS_FALLBACK, 1)
          ELSE /\ LastFs[1] > 0 /\ LastFs[2] > 0
               /\ IsMedian(R(LastFs[2], LastFs[1]), t, SaneSteps(t))

\* a cycle whose rate is 1/0.0015 s: the median of the two steps 1 ms and
\* 2 ms, the third step of 1.0 s being dropped
C4_Witness ==
    /\ mode = "text"
    /\ AfterCycle
    /\ LastFs = R(2000, 3)
    /\ Cardinality(SaneSteps(t)) = N - 2

\* the hop and the counter of the running script
HopOf == IF mode = "binary" THEN HOP_BIN ELSE HOP
CounterOf == IF mode = "binary" THEN new ELSE new_samples
StoredOf(k) == IF mode = "binary" THEN StoredBin(k) ELSE StoredText(k)

\* C5: in both loops the hop counter is the number of samples pushed since
\* the last snapshot, stays within 0..HOP-1, and the j-th snapshot is the
\* window as it was right after the (j*HOP)-th push: one snapshot per HOP
\* pushed samples.
C5_HopCadence ==
    mode \in {"text", "binary"} =>
        /\ CounterOf = Len(pushed) % HopOf
        /\ 0 <= CounterOf /\ CounterOf < HopOf
        /\ Len(emitted) = Len(pushed) \div HopOf
        /\ \A j \in 1..Len(emitted) :
              /\ emitted[j].k = j * HopOf
              /\ emitted[j].x = WindowOf(StoredOf(j * HopOf), N, RZero)

\* one binary chunk, the only one read, carried two hops: both snapshots
\* are out
C5_Witness ==
    /\ mode = "binary"
    /\ chunk = stream
    /\ Len(emitted) = 2
    /\ new = 0

\* C6: in binary mode the samples pushed, followed by those of the current
\* chunk still to be pushed, are the values low + 256 * high of the
\* consecutive byte pairs of everything read, and pending is the odd last
\* byte of the stream or empty.
C6_ByteFraming ==
    mode = "binary" =>
        /\ pushed \o data =
              [i \in 1..(Len(stream) \div 2) |-> stream[2 * i - 1] + 256 * stream[2 * i]]
        /\ pending = IF Len(stream) % 2 = 1 THEN <<stream[Len(stream)]>> ELSE <<>>
        /\ Len(pending) <= 1

\* a read of one byte completed the pair begun by the odd byte of the read
\* before it, and an odd byte is carried again afterwards
C6_Witness ==
    /\ mode = "binary"
    /\ stream = <<255, 1, 255, 1, 1>>
    /\ pushed = <<511, 511>>
    /\ pending = <<1>>
    /\ chunk = <<1, 1>>

\* C7: a discarded unit changes no acquisition state and the loop goes on
\* to the next read: a line with no sample leaves x, t, have_timestamps, the
\* hop counter and the snapshots alone; a zero-byte read leaves pending, buf
\* and the counter alone; a read that leaves fewer than two bytes pending
\* with no sample decoded changes only pending.
C7_DiscardNoEffect ==
    [][ /\ (mode = "text" /\ adc' = None) =>
              UNCHANGED <<x, t, have_timestamps, new_samples, pushed, emitted>>
        /\ (mode = "binary" /\ pc = "read" /\ chunk' = <<>>) =>
              /\ UNCHANGED <<pending, data, buf, new, pushed, emitted>>
              /\ pc' = "read"
        /\ (mode = "binary" /\ pc = "read" /\ Len(pending) + Len(chunk') < 2) =>
              /\ pending' = pending \o chunk'
              /\ UNCHANGED <<data, buf, new, pushed, emitted>>
              /\ pc' = "read"
      ]_vars

\* a malformed line was discarded in the middle of a hop, after stamped
\* samples had been accepted
C7_Witness ==
    /\ mode = "text"
    /\ raw = <<"4", ",", "x", "\n">>
    /\ adc = None
    /\ have_timestamps
    /\ new_samples = 1

\* C9: with HOP < N, the first N - HOP values of a snapshot are the last
\* N - HOP values of the snapshot before it, in order, and its last HOP
\* values are the HOP samples pushed in between; in both loops.
C9_Overlap ==
    (mode \in {"text", "binary"} /\ HopOf < N) =>
        \A j \in 1..(Len(emitted) - 1) :
            LET a == emitted[j].x
                b == emitted[j + 1].x
            IN  /\ SubSeq(b, 1, N - HopOf) = SubSeq(a, HopOf + 1, N)
                /\ SubSeq(b, N - HopOf + 1, N) =
                      SubSeq(StoredOf(Len(pushed)), emitted[j].k + 1, emitted[j].k + HopOf)

\* two snapshots of the text loop with different windows, a discarded line
\* having been read last
C9_Witness ==
    /\ mode = "text"
    /\ Len(emitted) = 2
    /\ emitted[1].x # emitted[2].x
    /\ emitted[2].x[1] # RZero
    /\ adc = None

\* C10: in text mode the rate of every cycle is a number above 1 Hz: no
\* median of nothing (nan) and no division by zero (inf), whatever the time
\* buffer holds; a rate other than the fallback comes from a non-empty set
\* of steps, each above 0 and below 1.0 s.
C10_RateWellDefined ==
    mode = "text" =>
        /\ \A n \in 1..Len(emitted) :
              /\ emitted[n].fs[2] > 0
              /\ emitted[n].fs[1] > emitted[n].fs[2]
        /\ (AfterCycle /\ LastFs # R(FS_FALLBACK, 1)) => SaneSteps(t) # {}

\* a derived rate of 500 Hz from a buffer that still holds zero fill and a
\* zero step
C10_Witness ==
    /\ mode = "text"
    /\ AfterCycle
    /\ LastFs = R(500, 1)
    /\ t[1] = RZero
    /\ t[2] = RZero

\* the volts of the scripted sample: 512 / 1023 * 5.0
E2EVolts == R(512 * 5, 1023)

\* C8 as stated: the scripted run produces a snapshot whose rate is 1000 Hz
\* and whose N values all are 512/1023*5.0 volts.
C8_FullWindowSnapshot ==
    sent = E2E.count =>
        \E j \in 1..Len(emitted) :
            /\ emitted[j].fs = R(1000, 1)
            /\ \A i \in 1..E2E.N : emitted[j].x[i] = E2EVolts

\* C8, amended: the scripted run produces one snapshot after every 128
\* lines, 7 in all; each has the rate 1000 Hz and a window of 1024 - 128*j
\* zeros followed by 128*j values 512/1023*5.0 volts, so none holds real
\* samples only.
C8_Scenario ==
    /\ Len(emitted) = sent \div E2E.HOP
    /\ \A j \in 1..Len(emitted) :
          LET e == emitted[j]
          IN  /\ e.k = j * E2E.HOP
              /\ e.k < E2E.N
              /\ e.fs = R(1000, 1)
              /\ \A i \in 1..E2E.N :
                    e.x[i] = IF i <= E2E.N - e.k THEN RZero ELSE E2EVolts

\* the second snapshot of the scripted run, taken after 256 lines: 768
\* zeros, then the samples
C8_Witness ==
    /\ sent = 2 * E2E.HOP
    /\ Len(emitted) = 2
    /\ emitted[2].k = 256
    /\ emitted[2].x[768] = RZero
    /\ emitted[2].x[769] = E2EVolts
    /\ emitted[2].fs = R(1000, 1)

=============================================================================
